---- MODULE Spec2Model ----
(***************************************************************************)
(* Drift detection of zabilal/firefly-drift-detector.                      *)
(*                                                                         *)
(* Two comparison engines live in the repository:                          *)
(*   - internal/detector  Detector.DetectDrift over models.InstanceConfig  *)
(*   - domain/services    DriftDetector.CompareInstances, wrapped by       *)
(*                        DefaultDetectionService.DetectDrift and          *)
(*                        BatchDetectDrift, over domain models.Instance    *)
(* Both walk their arguments with package reflect.  A reflect.Value is     *)
(* modelled as a tagged record, an interface{} as the same record (with    *)
(* NilInterface for the nil interface), a path string as the sequence of   *)
(* the string pieces the code concatenates.  Go's map iteration order is   *)
(* unspecified: every range over a map takes its order as a parameter that *)
(* the calling action chooses nondeterministically.                        *)
(***************************************************************************)
EXTENDS Integers, Sequences, FiniteSets, TLC

VARIABLES
    entry,        \* which entry point this run exercises
    awsConfig,    \* *models.InstanceConfig, the observed side of Detector.DetectDrift
    tfConfig,     \* *models.InstanceConfig, the declared side of Detector.DetectDrift
    report,       \* what DetectDrift(awsConfig, tfConfig) returned
    instance,     \* *models.Instance, the observed side of the detection service
    desiredInstance, \* *models.Instance, the declared side of the detection service
    result,       \* (report, err) DefaultDetectionService.DetectDrift returned
    actualInsts,  \* []*models.Instance handed to BatchDetectDrift
    desiredInsts, \* []*models.Instance handed to BatchDetectDrift
    batch,        \* (reports, err) BatchDetectDrift returned
    r,            \* a *models.DriftReport a caller builds with AddDrift
    instanceIDs,  \* []string handed to ec2Client.GetInstanceConfigs
    pc,           \* where GetInstanceConfigs itself is: "idle", "loop", "returned"
    loopAt,       \* the element of instanceIDs its loop is at, from 1
    worker,       \* worker[i]: the goroutine started for instanceIDs[i]
    wg,           \* the counter of the sync.WaitGroup
    results,      \* the buffer of the channel results
    closed,       \* whether results is closed
    closer,       \* where the closing goroutine is: "none", "wait", "close", "done"
    received,     \* what the caller has received from the channel, in order
    consumer,     \* where the caller's range loop is: "none", "range", "done"
    stateFile,    \* the Terraform state file handed to terraformParser.ParseState
    parsed        \* (configs, err) ParseState returned

driftVars == <<entry, awsConfig, tfConfig, report, instance,
               desiredInstance, result, actualInsts, desiredInsts, batch, r>>
fetchVars == <<instanceIDs, pc, loopAt, worker, wg, results, closed, closer,
               received, consumer>>
parseVars == <<stateFile, parsed>>
vars == <<driftVars, fetchVars, parseVars>>

---------------------------------------------------------------------------
(* Bounds of the model.                                                    *)

MaxSGs == 2       \* longest SecurityGroups slice
MaxDevices == 1   \* longest EBSBlockDevices slice
MaxBatch == 2     \* longest slice handed to BatchDetectDrift
MaxAdd == 3       \* most AddDrift calls on one report
MaxIDs == 2       \* most instance IDs in one GetInstanceConfigs call
MaxResources == 2 \* most resources in the root module of a state file
MaxModules == 1   \* most child modules of the root module
MaxChildResources == 1 \* most resources in one child module

---------------------------------------------------------------------------
(* Go values.                                                              *)

\* A pointer is the empty sequence (nil) or a one-element sequence.
Nil == <<>>
Ref(v) == <<v>>
IsNilPtr(p) == Len(p) = 0
Deref(p) == p[1]

\* The sequences over S of length at most n.
SeqUpTo(S, n) == UNION {[1..k -> S] : k \in 0..n}

\* The orders in which a range over a map with key set S can visit its keys.
Perms(S) ==
    {p \in [1..Cardinality(S) -> S] : \A i, j \in 1..Cardinality(S) : p[i] = p[j] => i = j}

\* The empty map, as a function.
EmptyKV == [k \in {} |-> ""]

\* reflect.Value ---------------------------------------------------------
Invalid == [kind |-> "invalid"]
StringV(s) == [kind |-> "string", s |-> s]
BoolV(b) == [kind |-> "bool", b |-> b]
IntV(n) == [kind |-> "int", n |-> n]
PtrV(p) == [kind |-> "ptr", p |-> p]
MapV(isNil, kv) == [kind |-> "map", isNil |-> isNil, kv |-> kv]
SliceV(isNil, elems) == [kind |-> "slice", isNil |-> isNil, elems |-> elems]
StructV(type, fields) == [kind |-> "struct", type |-> type, fields |-> fields]

\* interface{}: the nil interface, or the value it holds.
NilInterface == [kind |-> "nil"]

\* reflect.Value.IsValid, Kind, Elem
IsValid(v) == v.kind # "invalid"
Kind(v) == v.kind
Elem(v) == IF IsNilPtr(v.p) THEN Invalid ELSE Deref(v.p)

\* reflect.DeepEqual on two interface{} values.  The tagged records carry
\* everything DeepEqual looks at: the dynamic type, nil-ness of maps, slices
\* and pointers, and the pointees themselves, so it is structural equality.
DeepEqual(x, y) == x = y

\* What a call that panics leaves in place of its result.
Panics == [kind |-> "panic"]

\* reflect.Value.NumField, Field(i), Type().Field(i).Name, FieldByName.
\* FieldByName panics on a Value whose Kind is not Struct (the zero Value
\* included).
NumField(v) == Len(v.fields)
Field(v, i) == v.fields[i].v
FieldName(v, i) == v.fields[i].name
FieldByName(v, name) ==
    IF Kind(v) # "struct" THEN Panics
    ELSE IF \E i \in 1..NumField(v) : FieldName(v, i) = name
    THEN Field(v, CHOOSE i \in 1..NumField(v) : FieldName(v, i) = name)
    ELSE Invalid

\* A path is the sequence of the pieces the code concatenates into it.
EmptyPath == <<>>
Dot == "."
Key(k) == <<"[", k, "]">>

---------------------------------------------------------------------------
(* internal/detector: drift.go                                             *)

DriftTypeAdded == "ADDED"
DriftTypeRemoved == "REMOVED"
DriftTypeModified == "MODIFIED"

\* detector.Drift and models.Drift.  Description is a rendering of the other
\* fields and is left out.  A field the literal does not set is the nil
\* interface.
Drift(type, path, actual, expected) ==
    [Type |-> type, Path |-> path, Actual |-> actual, Expected |-> expected]

\* safeInterface: nil for the zero Value, the held value otherwise (every
\* field reached from reflect.ValueOf(*actual) is exported, so CanInterface
\* is true).
safeInterface(v) == IF ~IsValid(v) THEN NilInterface ELSE v

\* for _, sg := range sgs { m[sg.GroupID] = sg }: a later element overwrites
\* an earlier one with the same GroupID.
GroupID(sg) == FieldByName(sg, "GroupID").s
GroupName(sg) == FieldByName(sg, "GroupName").s
SGMap(sgs) ==
    [id \in {GroupID(sgs[i]) : i \in 1..Len(sgs)} |->
        LET last == CHOOSE i \in 1..Len(sgs) :
                        /\ GroupID(sgs[i]) = id
                        /\ \A j \in 1..Len(sgs) : GroupID(sgs[j]) = id => j <= i
        IN  sgs[last]]

\* compareStructSlices' index: the first field of an element, when it is a
\* string, keys the element; elements without one are not indexed.
Indexable(elem) == NumField(elem) > 0 /\ Kind(Field(elem, 1)) = "string"
ItemOf(x) == IF Kind(x) = "ptr" THEN Elem(x) ELSE x
ItemMap(elems) ==
    LET idx == {i \in 1..Len(elems) : Indexable(ItemOf(elems[i]))}
    IN  [id \in {Field(ItemOf(elems[i]), 1).s : i \in idx} |->
            LET last == CHOOSE i \in idx :
                            /\ Field(ItemOf(elems[i]), 1).s = id
                            /\ \A j \in idx : Field(ItemOf(elems[j]), 1).s = id => j <= i
            IN  ItemOf(elems[last])]

\* The iteration orders one DetectDrift call can meet: one per range over a
\* map.  Each is a sequence visiting every key of that map exactly once.
TagsOf(cfg) == FieldByName(cfg, "Tags").kv
SGsOf(cfg) == FieldByName(cfg, "SecurityGroups").elems
Orders(actual, expected) ==
    [tagsExpected : Perms(DOMAIN TagsOf(expected)),
     tagsActual   : Perms(DOMAIN TagsOf(actual)),
     sgExpected   : Perms(DOMAIN SGMap(SGsOf(expected))),
     sgActual     : Perms(DOMAIN SGMap(SGsOf(actual)))]

\* compareMaps, prefix == "Tags": for key, expectedValue := range expectedMap
RECURSIVE TagsExpectedLoop(_, _, _, _)
TagsExpectedLoop(prefix, order, actualMap, expectedMap) ==
    IF order = <<>> THEN <<>>
    ELSE LET key == Head(order)
             expectedValue == expectedMap[key]
             step ==
                 IF key \in DOMAIN actualMap
                 THEN IF actualMap[key] # expectedValue
                      THEN <<Drift(DriftTypeModified, prefix \o Key(key),
                                   StringV(actualMap[key]), StringV(expectedValue))>>
                      ELSE <<>>
                 ELSE <<Drift(DriftTypeRemoved, prefix \o Key(key),
                              NilInterface, StringV(expectedValue))>>
         IN  step \o TagsExpectedLoop(prefix, Tail(order), actualMap, expectedMap)

\* The second Tags loop without its !exists test.
RECURSIVE TagsActualLoop_NoExistsTest(_, _, _, _)
TagsActualLoop_NoExistsTest(prefix, order, actualMap, expectedMap) ==
    IF order = <<>> THEN <<>>
    ELSE <<Drift(DriftTypeAdded, prefix \o Key(Head(order)),
                 StringV(actualMap[Head(order)]), NilInterface)>>
         \o TagsActualLoop_NoExistsTest(prefix, Tail(order), actualMap, expectedMap)

\* compareMaps, prefix == "Tags": for key, actualValue := range actualMap
RECURSIVE TagsActualLoop(_, _, _, _)
TagsActualLoop(prefix, order, actualMap, expectedMap) ==
    IF order = <<>> THEN <<>>
    ELSE LET key == Head(order)
             step ==
                 IF key \notin DOMAIN expectedMap
                 THEN <<Drift(DriftTypeAdded, prefix \o Key(key),
                              StringV(actualMap[key]), NilInterface)>>
                 ELSE <<>>
         IN  step \o TagsActualLoop(prefix, Tail(order), actualMap, expectedMap)

\* compareMaps with a nil Tags map failing the type assertion.
compareMaps_NilNotOk(prefix, actual, expected, ord) ==
    LET actualOk == Kind(actual) = "map" /\ ~actual.isNil
        expectedOk == Kind(expected) = "map" /\ ~expected.isNil
    IN  IF ~actualOk /\ expectedOk
        THEN <<Drift(DriftTypeRemoved, prefix, NilInterface, expected)>>
        ELSE IF actualOk /\ ~expectedOk
        THEN <<Drift(DriftTypeAdded, prefix, actual, NilInterface)>>
        ELSE TagsExpectedLoop(prefix, ord.tagsExpected, actual.kv, expected.kv)
             \o TagsActualLoop(prefix, ord.tagsActual, actual.kv, expected.kv)

\* compareMaps.  actual.Interface().(map[string]string) succeeds for every
\* value of static type map[string]string, a nil map included, so actualOk
\* and expectedOk are true whenever the field is a map; ranging over a nil
\* map and indexing it behave as for an empty one.  InstanceConfig has no
\* map field besides Tags, so the generic branch below the Tags branch
\* (lines 255-316) is never entered from DetectDrift and is not modelled.
compareMaps(prefix, actual, expected, ord) ==
    LET actualOk == Kind(actual) = "map"
        expectedOk == Kind(expected) = "map"
        actualMap == actual.kv
        expectedMap == expected.kv
    IN  IF ~actualOk /\ expectedOk
        THEN <<Drift(DriftTypeRemoved, prefix, NilInterface, expected)>>
        ELSE IF actualOk /\ ~expectedOk
        THEN <<Drift(DriftTypeAdded, prefix, actual, NilInterface)>>
        ELSE TagsExpectedLoop(prefix, ord.tagsExpected, actualMap, expectedMap)
             \o TagsActualLoop(prefix, ord.tagsActual, actualMap, expectedMap)

\* The first SecurityGroups loop without its GroupName comparison.
RECURSIVE SGExpectedLoop_NoNameCompare(_, _, _, _)
SGExpectedLoop_NoNameCompare(prefix, order, actualMap, expectedMap) ==
    IF order = <<>> THEN <<>>
    ELSE LET id == Head(order)
             step ==
                 IF id \in DOMAIN actualMap THEN <<>>
                 ELSE <<Drift(DriftTypeRemoved, prefix \o Key(id),
                              NilInterface, expectedMap[id])>>
         IN  step \o SGExpectedLoop_NoNameCompare(prefix, Tail(order), actualMap, expectedMap)

\* compareSlices, prefix == "SecurityGroups": for id, expectedSG := range expectedMap
RECURSIVE SGExpectedLoop(_, _, _, _)
SGExpectedLoop(prefix, order, actualMap, expectedMap) ==
    IF order = <<>> THEN <<>>
    ELSE LET id == Head(order)
             expectedSG == expectedMap[id]
             step ==
                 IF id \in DOMAIN actualMap
                 THEN IF GroupName(actualMap[id]) # GroupName(expectedSG)
                      THEN <<Drift(DriftTypeModified,
                                   prefix \o Key(id) \o <<Dot, "GroupName">>,
                                   StringV(GroupName(actualMap[id])),
                                   StringV(GroupName(expectedSG)))>>
                      ELSE <<>>
                 ELSE <<Drift(DriftTypeRemoved, prefix \o Key(id),
                              NilInterface, expectedSG)>>
         IN  step \o SGExpectedLoop(prefix, Tail(order), actualMap, expectedMap)

\* The second SecurityGroups loop comparing the GroupName of a matched
\* record again, as the first loop does.
RECURSIVE SGActualLoop_ComparesAgain(_, _, _, _)
SGActualLoop_ComparesAgain(prefix, order, actualMap, expectedMap) ==
    IF order = <<>> THEN <<>>
    ELSE LET id == Head(order)
             step ==
                 IF id \notin DOMAIN expectedMap
                 THEN <<Drift(DriftTypeAdded, prefix \o Key(id),
                              actualMap[id], NilInterface)>>
                 ELSE IF GroupName(actualMap[id]) # GroupName(expectedMap[id])
                      THEN <<Drift(DriftTypeModified,
                                   prefix \o Key(id) \o <<Dot, "GroupName">>,
                                   StringV(GroupName(actualMap[id])),
                                   StringV(GroupName(expectedMap[id])))>>
                      ELSE <<>>
         IN  step \o SGActualLoop_ComparesAgain(prefix, Tail(order), actualMap, expectedMap)

\* compareSlices, prefix == "SecurityGroups": for id, actualSG := range actualMap
RECURSIVE SGActualLoop(_, _, _, _)
SGActualLoop(prefix, order, actualMap, expectedMap) ==
    IF order = <<>> THEN <<>>
    ELSE LET id == Head(order)
             step ==
                 IF id \notin DOMAIN expectedMap
                 THEN <<Drift(DriftTypeAdded, prefix \o Key(id),
                              actualMap[id], NilInterface)>>
                 ELSE <<>>
         IN  step \o SGActualLoop(prefix, Tail(order), actualMap, expectedMap)

RECURSIVE compareStruct(_, _, _, _)
RECURSIVE FieldLoop(_, _, _, _, _)
RECURSIVE ItemsExpectedLoop(_, _, _, _, _)

\* compareStructSlices: check for extra items in actual.
RECURSIVE ItemsActualLoop(_, _, _, _)
ItemsActualLoop(prefix, order, actualMap, expectedMap) ==
    IF order = <<>> THEN <<>>
    ELSE LET id == Head(order)
             step ==
                 IF id \notin DOMAIN expectedMap
                 THEN <<Drift(DriftTypeAdded, prefix \o Key(id),
                              actualMap[id], NilInterface)>>
                 ELSE <<>>
         IN  step \o ItemsActualLoop(prefix, Tail(order), actualMap, expectedMap)

\* compareStructSlices: entered for a slice whose elements are structs (not
\* pointers to structs).  Its two ranges take the order CHOOSE fixes: no
\* field of InstanceConfig other than SecurityGroups is such a slice, and
\* SecurityGroups never gets here.
compareStructSlices(prefix, actual, expected, ord) ==
    LET actualMap == ItemMap(actual.elems)
        expectedMap == ItemMap(expected.elems)
        orderE == CHOOSE p \in Perms(DOMAIN expectedMap) : TRUE
        orderA == CHOOSE p \in Perms(DOMAIN actualMap) : TRUE
    IN  ItemsExpectedLoop(prefix, orderE, actualMap, expectedMap, ord)
        \o ItemsActualLoop(prefix, orderA, actualMap, expectedMap)

\* compareSlices without the SecurityGroups branch: the slices are compared
\* as they stand, element order included.
compareSlices_NoIdentity(prefix, actual, expected, ord) ==
    IF Len(actual.elems) = 0 /\ Len(expected.elems) = 0 THEN <<>>
    ELSE IF ~DeepEqual(actual, expected)
    THEN <<Drift(DriftTypeModified, prefix, actual, expected)>>
    ELSE <<>>

\* compareSlices
compareSlices(prefix, actual, expected, ord) ==
    IF prefix = <<"SecurityGroups">>
    THEN LET actualOk == Kind(actual) = "slice"
             expectedOk == Kind(expected) = "slice"
             actualMap == SGMap(actual.elems)
             expectedMap == SGMap(expected.elems)
         IN  IF ~actualOk /\ expectedOk
             THEN <<Drift(DriftTypeRemoved, prefix, NilInterface, expected)>>
             ELSE IF actualOk /\ ~expectedOk
             THEN <<Drift(DriftTypeAdded, prefix, actual, NilInterface)>>
             ELSE SGExpectedLoop(prefix, ord.sgExpected, actualMap, expectedMap)
                  \o SGActualLoop(prefix, ord.sgActual, actualMap, expectedMap)
    ELSE IF Len(actual.elems) = 0 /\ Len(expected.elems) = 0 THEN <<>>
    ELSE IF Len(actual.elems) = 0
    THEN <<Drift(DriftTypeRemoved, prefix, NilInterface, safeInterface(expected))>>
    ELSE IF Len(expected.elems) = 0
    THEN <<Drift(DriftTypeAdded, prefix, safeInterface(actual), NilInterface)>>
    ELSE IF Len(actual.elems) > 0 /\ Kind(actual.elems[1]) = "struct"
    THEN compareStructSlices(prefix, actual, expected, ord)
    ELSE IF ~DeepEqual(actual, expected)
    THEN <<Drift(DriftTypeModified, prefix, actual, expected)>>
    ELSE <<>>

\* compareStructSlices: for id, expectedItem := range expectedMap
ItemsExpectedLoop(prefix, order, actualMap, expectedMap, ord) ==
    IF order = <<>> THEN <<>>
    ELSE LET id == Head(order)
             step ==
                 IF id \in DOMAIN actualMap
                 THEN compareStruct(prefix \o Key(id), actualMap[id], expectedMap[id], ord)
                 ELSE <<Drift(DriftTypeRemoved, prefix \o Key(id),
                              NilInterface, expectedMap[id])>>
         IN  step \o ItemsExpectedLoop(prefix, Tail(order), actualMap, expectedMap, ord)

\* The field loop taking the field of expected without testing that
\* expected is a valid struct.
FieldLoop_UnsafeFieldByName(prefix, actual, expected, i, ord) ==
    IF i > NumField(actual) THEN <<>>
    ELSE LET fieldName == FieldName(actual, i)
             fieldPath == (IF prefix # EmptyPath THEN prefix \o <<Dot>> ELSE prefix)
                          \o <<fieldName>>
             actualField == Field(actual, i)
             expectedField == FieldByName(expected, fieldName)
         IN  IF expectedField = Panics THEN <<Panics>>
             ELSE compareStruct(fieldPath, actualField, expectedField, ord)
                  \o FieldLoop(prefix, actual, expected, i + 1, ord)

\* compareStruct, case reflect.Struct: fields i..NumField-1 of actual.  A
\* panic ends the comparison: what is appended up to it is followed by the
\* mark Panics and by nothing else of this loop.
FieldLoop(prefix, actual, expected, i, ord) ==
    IF i > NumField(actual) THEN <<>>
    ELSE LET fieldName == FieldName(actual, i)
             fieldPath == (IF prefix # EmptyPath THEN prefix \o <<Dot>> ELSE prefix)
                          \o <<fieldName>>
             actualField == Field(actual, i)
             expectedField ==
                 IF IsValid(expected) /\ Kind(expected) = "struct"
                 THEN FieldByName(expected, fieldName)
                 ELSE Invalid
         IN  IF expectedField = Panics THEN <<Panics>>
             ELSE compareStruct(fieldPath, actualField, expectedField, ord)
                  \o FieldLoop(prefix, actual, expected, i + 1, ord)

\* compareStruct with Actual and Expected exchanged in the drift of its
\* default branch.
compareStruct_SwappedValues(prefix, actualIn, expectedIn, ord) ==
    IF ~IsValid(actualIn) /\ ~IsValid(expectedIn) THEN <<>>
    ELSE IF ~IsValid(actualIn)
    THEN <<Drift(DriftTypeRemoved, prefix, NilInterface, safeInterface(expectedIn))>>
    ELSE IF ~IsValid(expectedIn)
    THEN <<Drift(DriftTypeAdded, prefix, safeInterface(actualIn), NilInterface)>>
    ELSE LET actual == IF Kind(actualIn) = "ptr" THEN Elem(actualIn) ELSE actualIn
             expected == IF Kind(expectedIn) = "ptr" THEN Elem(expectedIn) ELSE expectedIn
         IN  CASE Kind(actual) = "struct" -> FieldLoop(prefix, actual, expected, 1, ord)
               [] Kind(actual) = "map" -> compareMaps(prefix, actual, expected, ord)
               [] Kind(actual) = "slice" -> compareSlices(prefix, actual, expected, ord)
               [] OTHER ->
                    LET actualVal == safeInterface(actual)
                        expectedVal == safeInterface(expected)
                    IN  IF ~DeepEqual(actualVal, expectedVal)
                        THEN <<Drift(DriftTypeModified, prefix, expectedVal, actualVal)>>
                        ELSE <<>>

\* compareStruct.  ignoredFields is empty (NewDetector).  The result is the
\* sequence of drifts the call appends to report.Drifts.
compareStruct(prefix, actualIn, expectedIn, ord) ==
    IF ~IsValid(actualIn) /\ ~IsValid(expectedIn) THEN <<>>
    ELSE IF ~IsValid(actualIn)
    THEN <<Drift(DriftTypeRemoved, prefix, NilInterface, safeInterface(expectedIn))>>
    ELSE IF ~IsValid(expectedIn)
    THEN <<Drift(DriftTypeAdded, prefix, safeInterface(actualIn), NilInterface)>>
    ELSE LET actual == IF Kind(actualIn) = "ptr" THEN Elem(actualIn) ELSE actualIn
             expected == IF Kind(expectedIn) = "ptr" THEN Elem(expectedIn) ELSE expectedIn
         IN  CASE Kind(actual) = "struct" -> FieldLoop(prefix, actual, expected, 1, ord)
               [] Kind(actual) = "map" -> compareMaps(prefix, actual, expected, ord)
               [] Kind(actual) = "slice" -> compareSlices(prefix, actual, expected, ord)
               [] OTHER ->
                    LET actualVal == safeInterface(actual)
                        expectedVal == safeInterface(expected)
                    IN  IF ~DeepEqual(actualVal, expectedVal)
                        THEN <<Drift(DriftTypeModified, prefix, actualVal, expectedVal)>>
                        ELSE <<>>

\* detector.DriftReport
DriftReport(instanceID, hasDrift, drifts) ==
    [InstanceID |-> instanceID, HasDrift |-> hasDrift, Drifts |-> drifts]

\* Detector.DetectDrift(actual, expected), under the iteration orders ord.
DetectDrift(actual, expected, ord) ==
    IF IsNilPtr(actual) /\ IsNilPtr(expected)
    THEN DriftReport("", FALSE, <<>>)
    ELSE IF IsNilPtr(actual) \/ IsNilPtr(expected)
    THEN LET instanceID == IF ~IsNilPtr(actual)
                           THEN FieldByName(Deref(actual), "InstanceID").s
                           ELSE FieldByName(Deref(expected), "InstanceID").s
         IN  DriftReport(instanceID, TRUE,
                 <<Drift(DriftTypeModified, EmptyPath, NilInterface, NilInterface)>>)
    ELSE LET drifts == compareStruct(EmptyPath, Deref(actual), Deref(expected), ord)
         IN  IF \E i \in 1..Len(drifts) : drifts[i] = Panics
             THEN Panics
             ELSE DriftReport(FieldByName(Deref(actual), "InstanceID").s,
                              Len(drifts) > 0, drifts)

---------------------------------------------------------------------------
(* domain/models: Drift, DriftReport                                       *)

\* NewDrift
NewDrift(driftType, path, actual, expected) ==
    Drift(driftType, path, actual, expected)

\* NewDriftReport: HasDrift is left at its zero value.
NewDriftReport(instanceID) == DriftReport(instanceID, FALSE, <<>>)

\* AddDrift without the flag update.
AddDrift_FlagNotSet(rep, drift) ==
    [rep EXCEPT !.Drifts = Append(rep.Drifts, drift)]

\* DriftReport.AddDrift
AddDrift(rep, drift) ==
    [rep EXCEPT !.Drifts = Append(rep.Drifts, drift), !.HasDrift = TRUE]

---------------------------------------------------------------------------
(* domain/services: DriftDetector                                          *)

\* strings.TrimPrefix(prefix, ".")
TrimPrefix(path) == IF path # <<>> /\ Head(path) = Dot THEN Tail(path) ELSE path

\* fmt.Sprintf("%s[%d]", prefix, i), i counted from 0
Index(prefix, i) == prefix \o <<"[", ToString(i), "]">>

\* The iteration orders one CompareInstances call can meet: MapKeys returns
\* the keys in unspecified order.
InstTagsOf(inst) == FieldByName(inst, "Tags").kv
ServiceOrders(actual, desired) ==
    [tagsActual   : Perms(DOMAIN InstTagsOf(actual)),
     tagsExpected : Perms(DOMAIN InstTagsOf(desired))]

\* DriftDetector.compareMaps: for _, key := range actual.MapKeys()
RECURSIVE MapActualLoop(_, _, _, _, _)
MapActualLoop(prefix, order, actual, expected, rep) ==
    IF order = <<>> THEN rep
    ELSE LET keyStr == Head(order)
             actualValue == StringV(actual.kv[keyStr])
             expectedValue == IF keyStr \in DOMAIN expected.kv
                              THEN StringV(expected.kv[keyStr])
                              ELSE Invalid
             next ==
                 IF ~IsValid(expectedValue)
                 THEN AddDrift(rep, NewDrift(DriftTypeRemoved,
                          prefix \o <<Dot, keyStr>>, NilInterface, NilInterface))
                 ELSE IF ~DeepEqual(actualValue, expectedValue)
                 THEN AddDrift(rep, NewDrift(DriftTypeModified,
                          prefix \o <<Dot, keyStr>>, actualValue, expectedValue))
                 ELSE rep
         IN  MapActualLoop(prefix, Tail(order), actual, expected, next)

\* DriftDetector.compareMaps: for _, key := range expected.MapKeys()
RECURSIVE MapExpectedLoop(_, _, _, _, _)
MapExpectedLoop(prefix, order, actual, expected, rep) ==
    IF order = <<>> THEN rep
    ELSE LET keyStr == Head(order)
             next ==
                 IF keyStr \notin DOMAIN actual.kv
                 THEN AddDrift(rep, NewDrift(DriftTypeAdded,
                          prefix \o <<Dot, keyStr>>, NilInterface,
                          StringV(expected.kv[keyStr])))
                 ELSE rep
         IN  MapExpectedLoop(prefix, Tail(order), actual, expected, next)

\* DriftDetector.compareMaps
DD_compareMaps(prefix, actual, expected, rep, ord) ==
    MapExpectedLoop(prefix, ord.tagsExpected, actual, expected,
        MapActualLoop(prefix, ord.tagsActual, actual, expected, rep))

RECURSIVE DD_compareStruct(_, _, _, _, _)
RECURSIVE DD_FieldLoop(_, _, _, _, _, _)
RECURSIVE DD_IndexLoop(_, _, _, _, _, _)

\* DriftDetector.compareSlices
DD_compareSlices(prefix, actual, expected, rep, ord) ==
    IF Len(actual.elems) # Len(expected.elems)
    THEN AddDrift(rep, NewDrift(DriftTypeModified, prefix, actual, expected))
    ELSE DD_IndexLoop(prefix, actual, expected, 0, rep, ord)

\* DriftDetector.compareSlices: for i := 0; i < actual.Len(); i++
DD_IndexLoop(prefix, actual, expected, i, rep, ord) ==
    IF ~(i < Len(actual.elems)) THEN rep
    ELSE DD_IndexLoop(prefix, actual, expected, i + 1,
             DD_compareStruct(Index(prefix, i), actual.elems[i + 1],
                              expected.elems[i + 1], rep, ord), ord)

\* DriftDetector.compareStruct, case reflect.Struct
DD_FieldLoop(prefix, actual, expected, i, rep, ord) ==
    IF i > NumField(actual) THEN rep
    ELSE LET fieldName == FieldName(actual, i)
             fieldPath == prefix \o <<Dot, fieldName>>
         IN  DD_FieldLoop(prefix, actual, expected, i + 1,
                 DD_compareStruct(fieldPath, Field(actual, i), Field(expected, i),
                                  rep, ord), ord)

\* DriftDetector.compareStruct.  ignoredFields is empty (NewDriftDetector).
DD_compareStruct(prefix, actual, expected, rep, ord) ==
    IF Kind(actual) # Kind(expected)
    THEN AddDrift(rep, NewDrift(DriftTypeModified, prefix, actual, expected))
    ELSE CASE Kind(actual) = "struct" -> DD_FieldLoop(prefix, actual, expected, 1, rep, ord)
           [] Kind(actual) = "map" -> DD_compareMaps(prefix, actual, expected, rep, ord)
           [] Kind(actual) = "slice" -> DD_compareSlices(prefix, actual, expected, rep, ord)
           [] OTHER ->
                IF ~DeepEqual(actual, expected)
                THEN AddDrift(rep, NewDrift(DriftTypeModified, TrimPrefix(prefix),
                                            actual, expected))
                ELSE rep

\* DriftDetector.CompareInstances, on two non-nil instances.
InstID(inst) == FieldByName(inst, "ID").s
CompareInstances(actual, desired, ord) ==
    DD_compareStruct(EmptyPath, Deref(actual), Deref(desired),
                     NewDriftReport(InstID(Deref(actual))), ord)

---------------------------------------------------------------------------
(* domain/services: DefaultDetectionService                                *)

NoError == "nil"
ErrInvalidInput == "invalid input parameters"
ErrInstanceMismatch == "instance IDs do not match"

\* (report, err) as returned; report is a pointer.
Returned(rep, err) == [report |-> rep, err |-> err]

\* DetectDrift without the comparison of the two IDs.
Service_DetectDrift_NoIDTest(actual, desired, ord) ==
    IF IsNilPtr(actual) \/ IsNilPtr(desired) THEN Returned(Nil, ErrInvalidInput)
    ELSE Returned(Ref(CompareInstances(actual, desired, ord)), NoError)

\* DefaultDetectionService.DetectDrift
Service_DetectDrift(actual, desired, ord) ==
    IF IsNilPtr(actual) \/ IsNilPtr(desired) THEN Returned(Nil, ErrInvalidInput)
    ELSE IF InstID(Deref(actual)) # InstID(Deref(desired))
    THEN Returned(Nil, ErrInstanceMismatch)
    ELSE Returned(Ref(CompareInstances(actual, desired, ord)), NoError)

\* map[string]T as a function; m[k] = v.
Put(m, k, v) == [x \in DOMAIN m \cup {k} |-> IF x = k THEN v ELSE m[x]]

\* What a BatchDetectDrift call ends in: it returns (reports, err), or a
\* nil element of a slice makes inst.ID panic.
BatchReturned(reps, err) == [panic |-> FALSE, reports |-> reps, err |-> err]
BatchPanic == [panic |-> TRUE, reports |-> EmptyKV, err |-> NoError]

\* for _, inst := range desired { desiredMap[inst.ID] = inst }
RECURSIVE DesiredMapLoop(_, _, _)
DesiredMapLoop(desired, i, desiredMap) ==
    IF i > Len(desired) THEN desiredMap
    ELSE DesiredMapLoop(desired, i + 1,
             Put(desiredMap, InstID(Deref(desired[i])), desired[i]))

\* for _, actualInst := range actual: st is the call so far, BatchReturned
\* with the reports written so far, or how the call ended.
RECURSIVE BatchActualLoop(_, _, _, _, _)
BatchActualLoop(actual, i, desiredMap, st, ords) ==
    IF i > Len(actual) \/ st.panic \/ st.err # NoError THEN st
    ELSE IF IsNilPtr(actual[i]) THEN BatchPanic
    ELSE LET actualInst == actual[i]
             id == InstID(Deref(actualInst))
             next ==
                 IF id \in DOMAIN desiredMap
                 THEN LET ret == Service_DetectDrift(actualInst, desiredMap[id], ords[i])
                      IN  IF ret.err # NoError
                          THEN BatchReturned(EmptyKV, ret.err)
                          ELSE BatchReturned(Put(st.reports, id, ret.report), NoError)
                 ELSE BatchReturned(
                          Put(st.reports, id,
                              Ref(AddDrift(NewDriftReport(id),
                                      NewDrift(DriftTypeRemoved, EmptyPath,
                                               NilInterface, NilInterface)))),
                          NoError)
         IN  BatchActualLoop(actual, i + 1, desiredMap, next, ords)

\* BatchDetectDrift without its second loop: nothing is reported for the
\* instances that are only desired.
BatchDesiredLoop_Skipped(desired, i, st) == st

\* The second loop reporting a desired-only instance under the other kind.
RECURSIVE BatchDesiredLoop_OtherKind(_, _, _)
BatchDesiredLoop_OtherKind(desired, i, st) ==
    IF i > Len(desired) \/ st.panic \/ st.err # NoError THEN st
    ELSE LET desiredInst == desired[i]
             id == InstID(Deref(desiredInst))
             next ==
                 IF id \notin DOMAIN st.reports
                 THEN BatchReturned(
                          Put(st.reports, id,
                              Ref(AddDrift(NewDriftReport(id),
                                      NewDrift(DriftTypeRemoved, EmptyPath,
                                               NilInterface, PtrV(desiredInst))))),
                          NoError)
                 ELSE st
         IN  BatchDesiredLoop_OtherKind(desired, i + 1, next)

\* for _, desiredInst := range desired
RECURSIVE BatchDesiredLoop(_, _, _)
BatchDesiredLoop(desired, i, st) ==
    IF i > Len(desired) \/ st.panic \/ st.err # NoError THEN st
    ELSE LET desiredInst == desired[i]
             id == InstID(Deref(desiredInst))
             next ==
                 IF id \notin DOMAIN st.reports
                 THEN BatchReturned(
                          Put(st.reports, id,
                              Ref(AddDrift(NewDriftReport(id),
                                      NewDrift(DriftTypeAdded, EmptyPath,
                                               NilInterface, PtrV(desiredInst))))),
                          NoError)
                 ELSE st
         IN  BatchDesiredLoop(desired, i + 1, next)

\* DefaultDetectionService.BatchDetectDrift; ords[i] holds the iteration
\* orders of the DetectDrift call made for actual[i].
BatchDetectDrift(actual, desired, ords) ==
    IF \E i \in 1..Len(desired) : IsNilPtr(desired[i]) THEN BatchPanic
    ELSE LET desiredMap == DesiredMapLoop(desired, 1, EmptyKV)
         IN  BatchDesiredLoop(desired, 1,
                 BatchActualLoop(actual, 1, desiredMap,
                                 BatchReturned(EmptyKV, NoError), ords))

\* The orders the calls of one BatchDetectDrift can meet.
NoOrder == [tagsActual |-> <<>>, tagsExpected |-> <<>>]
BatchOrdersAt(actual, desired, i) ==
    IF \/ \E j \in 1..Len(desired) : IsNilPtr(desired[j])
       \/ IsNilPtr(actual[i])
    THEN {NoOrder}
    ELSE LET desiredMap == DesiredMapLoop(desired, 1, EmptyKV)
             id == InstID(Deref(actual[i]))
         IN  IF id \in DOMAIN desiredMap
             THEN ServiceOrders(Deref(actual[i]), Deref(desiredMap[id]))
             ELSE {NoOrder}
BatchOrders(actual, desired) ==
    LET n == Len(actual)
        all == UNION {BatchOrdersAt(actual, desired, i) : i \in 1..n}
    IN  {f \in [1..n -> all] : \A i \in 1..n : f[i] \in BatchOrdersAt(actual, desired, i)}

---------------------------------------------------------------------------
(* internal/models.InstanceConfig and domain/models.Instance               *)

FieldOf(name, v) == [name |-> name, v |-> v]

\* models.SecurityGroup (both packages declare it alike)
SecurityGroup(id, name) ==
    StructV("SecurityGroup",
        <<FieldOf("GroupID", StringV(id)), FieldOf("GroupName", StringV(name))>>)

\* models.MetadataOptions: HTTPEndpoint string, HTTPPutResponseHopLimit *int
MetadataOptions(endpoint, hop) ==
    StructV("MetadataOptions",
        <<FieldOf("HTTPEndpoint", StringV(endpoint)),
          FieldOf("HTTPPutResponseHopLimit", PtrV(hop))>>)

\* models.EBSBlockDevice: DeviceName string, VolumeSize *int
EBSBlockDevice(name, size) ==
    StructV("EBSBlockDevice",
        <<FieldOf("DeviceName", StringV(name)), FieldOf("VolumeSize", PtrV(size))>>)

\* internal/models.InstanceConfig, one field of each kind the struct holds,
\* in declaration order: strings, the Tags map, the SecurityGroups slice, a
\* *bool, a pointer to a struct, a slice of pointers to structs.
InstanceConfig(id, type, ami, tags, sgs, monitoring, metadata, ebs) ==
    StructV("InstanceConfig",
        <<FieldOf("InstanceID", StringV(id)),
          FieldOf("InstanceType", StringV(type)),
          FieldOf("AMI", StringV(ami)),
          FieldOf("Tags", tags),
          FieldOf("SecurityGroups", sgs),
          FieldOf("Monitoring", monitoring),
          FieldOf("MetadataOptions", metadata),
          FieldOf("EBSBlockDevices", ebs)>>)

\* domain/models.Instance, in declaration order.
Instance(id, type, tags, sgs, monitoring) ==
    StructV("Instance",
        <<FieldOf("ID", StringV(id)),
          FieldOf("Type", StringV(type)),
          FieldOf("Tags", tags),
          FieldOf("SecurityGroups", sgs),
          FieldOf("Monitoring", monitoring)>>)

---------------------------------------------------------------------------
(* The inputs the model draws from.                                        *)

InstanceIDs == {"i-1", "i-2"}
InstanceTypes == {"t2.micro", "t2.medium"}
AMIs == {"ami-1", "ami-2"}
TagKeys == {"Name", "Environment"}
TagValues == {"x", "y"}
NilMap == MapV(TRUE, EmptyKV)
TagMaps ==
    {NilMap} \cup {MapV(FALSE, kv) : kv \in UNION {[K -> TagValues] : K \in SUBSET TagKeys}}

\* Security groups: a GroupID under two names, a second GroupID, and a
\* record without GroupID.
SGRecords ==
    {SecurityGroup("sg-1", "a"), SecurityGroup("sg-1", "b"),
     SecurityGroup("sg-2", "a"), SecurityGroup("", "a")}
NilSlice == SliceV(TRUE, <<>>)
SGSlices == {NilSlice} \cup {SliceV(FALSE, sgs) : sgs \in SeqUpTo(SGRecords, MaxSGs)}

BoolPtrs == {PtrV(Nil), PtrV(Ref(BoolV(TRUE))), PtrV(Ref(BoolV(FALSE)))}
IntPtrs == {PtrV(Nil), PtrV(Ref(IntV(1)))}
MetadataPtrs ==
    {PtrV(Nil)} \cup
    {PtrV(Ref(MetadataOptions(e, h.p))) : e \in {"enabled", "disabled"}, h \in IntPtrs}
Devices == {PtrV(Ref(EBSBlockDevice(n, Nil))) : n \in {"/dev/sda", "/dev/sdb"}}
DeviceSlices == {NilSlice} \cup {SliceV(FALSE, ds) : ds \in SeqUpTo(Devices, MaxDevices)}

\* Configurations: each family varies some fields of a base configuration;
\* the two sides of one comparison come from one family.
ScalarConfigs ==
    {InstanceConfig(id, ty, ami, NilMap, NilSlice, PtrV(Nil), PtrV(Nil), NilSlice) :
        id \in InstanceIDs, ty \in InstanceTypes, ami \in AMIs}
TagConfigs ==
    {InstanceConfig("i-1", ty, "ami-1", tags, NilSlice, PtrV(Nil), PtrV(Nil), NilSlice) :
        ty \in InstanceTypes, tags \in TagMaps}
SGConfigs ==
    {InstanceConfig("i-1", "t2.micro", "ami-1", NilMap, sgs, PtrV(Nil), PtrV(Nil), NilSlice) :
        sgs \in SGSlices}
PtrConfigs ==
    {InstanceConfig("i-1", "t2.micro", "ami-1", NilMap, NilSlice, mon, meta, NilSlice) :
        mon \in BoolPtrs, meta \in MetadataPtrs}
DeviceConfigs ==
    {InstanceConfig("i-1", "t2.micro", "ami-1", NilMap, NilSlice, PtrV(Nil), PtrV(Nil), ebs) :
        ebs \in DeviceSlices}
ConfigFamilies == {ScalarConfigs, TagConfigs, SGConfigs, PtrConfigs, DeviceConfigs}
PtrsTo(S) == {Nil} \cup {Ref(x) : x \in S}

ScalarInstances ==
    {Instance(id, ty, NilMap, NilSlice, PtrV(Nil)) : id \in InstanceIDs, ty \in InstanceTypes}
TagInstances ==
    {Instance("i-1", "t2.micro", tags, NilSlice, mon) : tags \in TagMaps, mon \in BoolPtrs}
SGInstances ==
    {Instance("i-1", "t2.micro", NilMap, sgs, PtrV(Nil)) : sgs \in SGSlices}
InstanceFamilies == {ScalarInstances, TagInstances, SGInstances}

\* The elements of the slices handed to BatchDetectDrift.
BatchPtrs ==
    {Nil,
     Ref(Instance("i-1", "t2.micro", MapV(FALSE, EmptyKV), NilSlice, PtrV(Nil))),
     Ref(Instance("i-1", "t2.medium",
                  MapV(FALSE, [k \in TagKeys |-> "x"]), NilSlice, PtrV(Nil))),
     Ref(Instance("i-2", "t2.micro", MapV(FALSE, EmptyKV), NilSlice, PtrV(Nil)))}

\* The drifts a caller of AddDrift passes.
CallerDrifts ==
    {NewDrift(t, <<"Type">>, NilInterface, NilInterface) :
        t \in {DriftTypeAdded, DriftTypeRemoved, DriftTypeModified}}

---------------------------------------------------------------------------
(* State machine.  A run exercises one entry point: the detect command's   *)
(* Detector.DetectDrift (cmd/commands/detect.go), the detection service's  *)
(* DetectDrift or BatchDetectDrift, or a caller building a DriftReport.    *)

Idle ==
    /\ awsConfig = Nil /\ tfConfig = Nil
    /\ instance = Nil /\ desiredInstance = Nil
    /\ actualInsts = <<>> /\ desiredInsts = <<>>

NotCalled ==
    /\ report = Nil
    /\ result = Nil /\ batch = Nil /\ r = Nil

InitDetector ==
    /\ entry = "detector"
    /\ \E family \in ConfigFamilies :
           awsConfig \in PtrsTo(family) /\ tfConfig \in PtrsTo(family)
    /\ instance = Nil /\ desiredInstance = Nil
    /\ actualInsts = <<>> /\ desiredInsts = <<>>
    /\ NotCalled

InitService ==
    /\ entry = "service"
    /\ \E family \in InstanceFamilies :
           instance \in PtrsTo(family) /\ desiredInstance \in PtrsTo(family)
    /\ awsConfig = Nil /\ tfConfig = Nil
    /\ actualInsts = <<>> /\ desiredInsts = <<>>
    /\ NotCalled

InitBatch ==
    /\ entry = "batch"
    /\ actualInsts \in SeqUpTo(BatchPtrs, MaxBatch)
    /\ desiredInsts \in SeqUpTo(BatchPtrs, MaxBatch)
    /\ awsConfig = Nil /\ tfConfig = Nil
    /\ instance = Nil /\ desiredInstance = Nil
    /\ NotCalled

InitReport ==
    /\ entry = "report"
    /\ Idle
    /\ NotCalled

\* No GetInstanceConfigs call is under way.
FetchIdle ==
    /\ instanceIDs = <<>> /\ pc = "idle" /\ loopAt = 0
    /\ worker = <<>> /\ wg = 0
    /\ results = <<>> /\ closed = FALSE /\ closer = "none"
    /\ received = <<>> /\ consumer = "none"

\* No ParseState call has been made.
ParseIdle == stateFile = Nil /\ parsed = Nil

Init == (InitDetector \/ InitService \/ InitBatch \/ InitReport) /\ FetchIdle /\ ParseIdle

\* The iteration orders a DetectDrift call on two pointers can meet.
NoOrders == [tagsExpected |-> <<>>, tagsActual |-> <<>>, sgExpected |-> <<>>, sgActual |-> <<>>]
OrdersFor(actual, expected) ==
    IF IsNilPtr(actual) \/ IsNilPtr(expected) THEN {NoOrders}
    ELSE Orders(Deref(actual), Deref(expected))
ServiceOrdersFor(actual, desired) ==
    IF IsNilPtr(actual) \/ IsNilPtr(desired) THEN {NoOrder}
    ELSE ServiceOrders(Deref(actual), Deref(desired))

\* report := d.DetectDrift(awsConfig, tfConfig)
DetectDriftCall ==
    /\ entry = "detector" /\ report = Nil
    /\ \E ord \in OrdersFor(awsConfig, tfConfig) :
           report' = Ref(DetectDrift(awsConfig, tfConfig, ord))
    /\ UNCHANGED <<entry, awsConfig, tfConfig, instance, desiredInstance,
                   result, actualInsts, desiredInsts, batch, r>>
    /\ UNCHANGED fetchVars
    /\ UNCHANGED parseVars

\* report, err := detectionSvc.DetectDrift(ctx, instance, desiredInstance)
ServiceDetectDriftCall ==
    /\ entry = "service" /\ result = Nil
    /\ \E ord \in ServiceOrdersFor(instance, desiredInstance) :
           result' = Ref(Service_DetectDrift(instance, desiredInstance, ord))
    /\ UNCHANGED <<entry, awsConfig, tfConfig, report, instance,
                   desiredInstance, actualInsts, desiredInsts, batch, r>>
    /\ UNCHANGED fetchVars
    /\ UNCHANGED parseVars

\* reports, err := s.BatchDetectDrift(ctx, actualInsts, desiredInsts)
BatchDetectDriftCall ==
    /\ entry = "batch" /\ batch = Nil
    /\ \E ords \in BatchOrders(actualInsts, desiredInsts) :
           batch' = Ref(BatchDetectDrift(actualInsts, desiredInsts, ords))
    /\ UNCHANGED <<entry, awsConfig, tfConfig, report, instance,
                   desiredInstance, result, actualInsts, desiredInsts, r>>
    /\ UNCHANGED fetchVars
    /\ UNCHANGED parseVars

\* r := models.NewDriftReport(id)
NewDriftReportCall ==
    /\ entry = "report" /\ r = Nil
    /\ \E id \in InstanceIDs : r' = Ref(NewDriftReport(id))
    /\ UNCHANGED <<entry, awsConfig, tfConfig, report, instance,
                   desiredInstance, result, actualInsts, desiredInsts, batch>>
    /\ UNCHANGED fetchVars
    /\ UNCHANGED parseVars

\* r.AddDrift(drift)
AddDriftCall ==
    /\ entry = "report" /\ r # Nil
    /\ Len(Deref(r).Drifts) < MaxAdd
    /\ \E drift \in CallerDrifts : r' = Ref(AddDrift(Deref(r), drift))
    /\ UNCHANGED <<entry, awsConfig, tfConfig, report, instance,
                   desiredInstance, result, actualInsts, desiredInsts, batch>>
    /\ UNCHANGED fetchVars
    /\ UNCHANGED parseVars

Next ==
    \/ DetectDriftCall
    \/ ServiceDetectDriftCall
    \/ BatchDetectDriftCall
    \/ NewDriftReportCall
    \/ AddDriftCall

Spec == Init /\ [][Next]_vars

---------------------------------------------------------------------------
(* internal/aws: ec2Client.GetInstanceConfigs.  The caller's goroutine     *)
(* runs the loop over instanceIDs, starts the closing goroutine and        *)
(* returns the channel; one goroutine per non-empty ID fetches and sends;  *)
(* the caller then ranges over the channel (as the tests do), or does not. *)

\* InstanceConfigResult
InstanceConfigResult(instanceID, config, err) ==
    [InstanceID |-> instanceID, Config |-> config, Err |-> err]

ErrEmptyID == "instance ID cannot be empty"
ErrDescribe == "failed to describe instance"
ErrNotFound == "no instance found with ID"

\* What c.client.DescribeInstances can return for one instance ID: an
\* error (of the API, or of the context: cancelled, deadline exceeded), an
\* output without reservations, or an output holding the instance.
DescribeInstancesOutputs(instanceID) ==
    {[err |-> TRUE, ctxErr |-> FALSE, instances |-> <<>>],
     [err |-> FALSE, ctxErr |-> FALSE, instances |-> <<>>],
     [err |-> FALSE, ctxErr |-> FALSE,
      instances |-> <<[InstanceId |-> instanceID, InstanceType |-> "t2.micro",
                       ImageId |-> "ami-1"]>>]}

\* What DescribeInstances returns once the context it was given is done:
\* the context's error (context.DeadlineExceeded).
DeadlineExceeded == [err |-> TRUE, ctxErr |-> TRUE, instances |-> <<>>]

\* convertToInstanceConfig, on an instance without security groups or tags:
\* Tags is made, SecurityGroups stays nil.
convertToInstanceConfig(inst) ==
    InstanceConfig(inst.InstanceId, inst.InstanceType, inst.ImageId,
                   MapV(FALSE, EmptyKV), NilSlice, PtrV(Nil), PtrV(Nil), NilSlice)

\* GetInstanceConfig reporting an instance that was not found as (nil, nil).
GetInstanceConfig_NotFoundUnreported(instanceID, out) ==
    IF instanceID = "" THEN [config |-> Nil, err |-> ErrEmptyID]
    ELSE IF out.err THEN [config |-> Nil, err |-> ErrDescribe]
    ELSE IF Len(out.instances) = 0 THEN [config |-> Nil, err |-> NoError]
    ELSE [config |-> Ref(convertToInstanceConfig(out.instances[1])), err |-> NoError]

\* ec2Client.GetInstanceConfig, given what DescribeInstances returns.
GetInstanceConfig(instanceID, out) ==
    IF instanceID = "" THEN [config |-> Nil, err |-> ErrEmptyID]
    ELSE IF out.err THEN [config |-> Nil, err |-> ErrDescribe]
    ELSE IF Len(out.instances) = 0 THEN [config |-> Nil, err |-> ErrNotFound]
    ELSE [config |-> Ref(convertToInstanceConfig(out.instances[1])), err |-> NoError]

\* A goroutine: not started, or at one of its steps with its locals.
NotStarted ==
    [at |-> "none", instanceID |-> "", timedOut |-> FALSE, out |-> <<>>,
     config |-> Nil, err |-> NoError]
Workers == 1..Len(instanceIDs)

\* A channel made one slot short of the number of IDs.
Capacity_OneShort == Len(instanceIDs) - 1

\* make(chan InstanceConfigResult, len(instanceIDs))
Capacity == Len(instanceIDs)

RequestIDs == InstanceIDs \cup {""}

InitFetch ==
    /\ entry = "fetch" /\ Idle /\ NotCalled
    /\ instanceIDs \in SeqUpTo(RequestIDs, MaxIDs)
    /\ pc = "loop" /\ loopAt = 1
    /\ worker = [i \in 1..Len(instanceIDs) |-> NotStarted]
    /\ wg = 0
    /\ results = <<>> /\ closed = FALSE /\ closer = "none"
    /\ received = <<>> /\ consumer = "none"
    /\ ParseIdle

\* The loop without the result for an empty ID: the ID is only skipped.
LoopEmptyID_Skipped ==
    /\ pc = "loop" /\ loopAt <= Len(instanceIDs)
    /\ instanceIDs[loopAt] = ""
    /\ loopAt' = loopAt + 1
    /\ UNCHANGED <<instanceIDs, pc, worker, wg, results, closed, closer, received, consumer>>
    /\ UNCHANGED driftVars
    /\ UNCHANGED parseVars

\* for _, id := range instanceIDs, id == "": send the error result, continue.
\* The send waits while the buffer is full.
LoopEmptyID ==
    /\ pc = "loop" /\ loopAt <= Len(instanceIDs)
    /\ instanceIDs[loopAt] = ""
    /\ Len(results) < Capacity
    /\ results' = Append(results, InstanceConfigResult(instanceIDs[loopAt], Nil, ErrEmptyID))
    /\ loopAt' = loopAt + 1
    /\ UNCHANGED <<instanceIDs, pc, worker, wg, closed, closer, received, consumer>>
    /\ UNCHANGED driftVars
    /\ UNCHANGED parseVars

\* for _, id := range instanceIDs, id != "": wg.Add(1); go func(instanceID){...}(id)
LoopSpawn ==
    /\ pc = "loop" /\ loopAt <= Len(instanceIDs)
    /\ instanceIDs[loopAt] # ""
    /\ wg' = wg + 1
    /\ worker' = [worker EXCEPT ![loopAt] =
                     [NotStarted EXCEPT !.at = "fetch", !.instanceID = instanceIDs[loopAt]]]
    /\ loopAt' = loopAt + 1
    /\ UNCHANGED <<instanceIDs, pc, results, closed, closer, received, consumer>>
    /\ UNCHANGED driftVars
    /\ UNCHANGED parseVars

\* After the loop: go func() { wg.Wait(); close(results) }(); return results.
\* The caller holds the channel from here on.
Return ==
    /\ pc = "loop" /\ loopAt > Len(instanceIDs)
    /\ pc' = "returned"
    /\ closer' = "wait"
    /\ consumer' = "range"
    /\ UNCHANGED <<instanceIDs, loopAt, worker, wg, results, closed, received>>
    /\ UNCHANGED driftVars
    /\ UNCHANGED parseVars

\* config, err := c.GetInstanceConfig(ctx, instanceID), in the goroutine of
\* the i-th ID, under its 30 s timeout: DescribeInstances returns something.
WorkerFetch(i) ==
    /\ i \in Workers /\ worker[i].at = "fetch"
    /\ \E out \in DescribeInstancesOutputs(worker[i].instanceID) :
         LET got == GetInstanceConfig(worker[i].instanceID, out)
         IN worker' = [worker EXCEPT ![i] =
                [@ EXCEPT !.at = "send", !.out = out,
                          !.config = got.config, !.err = got.err]]
    /\ UNCHANGED <<instanceIDs, pc, loopAt, wg, results, closed, closer, received, consumer>>
    /\ UNCHANGED driftVars
    /\ UNCHANGED parseVars

\* The goroutine after a timeout of a context shared by all goroutines: the
\* fetches of the others end with the context's error as well.
WorkerDeadline_SharedContext(i) ==
    /\ i \in Workers /\ worker[i].at = "fetch"
    /\ worker' = [j \in DOMAIN worker |->
          IF worker[j].at = "fetch"
          THEN LET got == GetInstanceConfig(worker[j].instanceID, DeadlineExceeded)
               IN [worker[j] EXCEPT !.at = "send", !.timedOut = (j = i),
                                    !.out = DeadlineExceeded,
                                    !.config = got.config, !.err = got.err]
          ELSE worker[j]]
    /\ UNCHANGED <<instanceIDs, pc, loopAt, wg, results, closed, closer, received, consumer>>
    /\ UNCHANGED driftVars
    /\ UNCHANGED parseVars

\* ctx, cancel := context.WithTimeout(ctx, 30*time.Second), a context of this
\* goroutine alone: its 30 s pass while the fetch is outstanding, and
\* GetInstanceConfig returns with the context's error.
WorkerDeadline(i) ==
    /\ i \in Workers /\ worker[i].at = "fetch"
    /\ LET got == GetInstanceConfig(worker[i].instanceID, DeadlineExceeded)
       IN worker' = [worker EXCEPT ![i] =
              [@ EXCEPT !.at = "send", !.timedOut = TRUE, !.out = DeadlineExceeded,
                        !.config = got.config, !.err = got.err]]
    /\ UNCHANGED <<instanceIDs, pc, loopAt, wg, results, closed, closer, received, consumer>>
    /\ UNCHANGED driftVars
    /\ UNCHANGED parseVars

\* results <- InstanceConfigResult{InstanceID: instanceID, Config: config,
\* Err: err}: a send on a closed channel panics, a send on a full buffer
\* waits.
WorkerSend(i) ==
    /\ i \in Workers /\ worker[i].at = "send"
    /\ IF closed
       THEN /\ worker' = [worker EXCEPT ![i].at = "panic"]
            /\ UNCHANGED results
       ELSE /\ Len(results) < Capacity
            /\ results' = Append(results,
                   InstanceConfigResult(worker[i].instanceID, worker[i].config, worker[i].err))
            /\ worker' = [worker EXCEPT ![i].at = "sent"]
    /\ UNCHANGED <<instanceIDs, pc, loopAt, wg, closed, closer, received, consumer>>
    /\ UNCHANGED driftVars
    /\ UNCHANGED parseVars

\* The goroutine returning without wg.Done().
WorkerDone_NoDone(i) ==
    /\ i \in Workers /\ worker[i].at = "sent"
    /\ worker' = [worker EXCEPT ![i].at = "done"]
    /\ UNCHANGED <<instanceIDs, pc, loopAt, wg, results, closed, closer, received, consumer>>
    /\ UNCHANGED driftVars
    /\ UNCHANGED parseVars

\* defer cancel(); defer wg.Done(), as the goroutine returns.
WorkerDone(i) ==
    /\ i \in Workers /\ worker[i].at = "sent"
    /\ wg' = wg - 1
    /\ worker' = [worker EXCEPT ![i].at = "done"]
    /\ UNCHANGED <<instanceIDs, pc, loopAt, results, closed, closer, received, consumer>>
    /\ UNCHANGED driftVars
    /\ UNCHANGED parseVars

\* wg.Wait() returns once the counter is zero.
CloserWait ==
    /\ closer = "wait" /\ wg = 0
    /\ closer' = "close"
    /\ UNCHANGED <<instanceIDs, pc, loopAt, worker, wg, results, closed, received, consumer>>
    /\ UNCHANGED driftVars
    /\ UNCHANGED parseVars

\* close(results)
CloserClose ==
    /\ closer = "close"
    /\ closed' = TRUE
    /\ closer' = "done"
    /\ UNCHANGED <<instanceIDs, pc, loopAt, worker, wg, results, received, consumer>>
    /\ UNCHANGED driftVars
    /\ UNCHANGED parseVars

\* for result := range results, one iteration: take the oldest buffered result.
ConsumerReceive ==
    /\ consumer = "range" /\ Len(results) > 0
    /\ received' = Append(received, Head(results))
    /\ results' = Tail(results)
    /\ UNCHANGED <<instanceIDs, pc, loopAt, worker, wg, closed, closer, consumer>>
    /\ UNCHANGED driftVars
    /\ UNCHANGED parseVars

\* for result := range results ends: the channel is closed and drained.
ConsumerExit ==
    /\ consumer = "range" /\ Len(results) = 0 /\ closed
    /\ consumer' = "done"
    /\ UNCHANGED <<instanceIDs, pc, loopAt, worker, wg, results, closed, closer, received>>
    /\ UNCHANGED driftVars
    /\ UNCHANGED parseVars

\* The steps of the goroutine of the i-th ID.
Worker(i) == WorkerFetch(i) \/ WorkerDeadline(i) \/ WorkerSend(i) \/ WorkerDone(i)

FetchNext ==
    \/ LoopEmptyID
    \/ LoopSpawn
    \/ Return
    \/ \E i \in 1..MaxIDs : WorkerFetch(i)
    \/ \E i \in 1..MaxIDs : WorkerDeadline(i)
    \/ \E i \in 1..MaxIDs : WorkerSend(i)
    \/ \E i \in 1..MaxIDs : WorkerDone(i)
    \/ CloserWait
    \/ CloserClose
    \/ ConsumerReceive
    \/ ConsumerExit

\* The consumer may stop receiving at any time; nothing is assumed fair.
FetchSpec == InitFetch /\ [][FetchNext]_vars

\* Every goroutine that can take a step eventually takes it (the Go
\* scheduler), every DescribeInstances call returns (WorkerFetch), and the
\* caller keeps ranging over the channel.
FetchFairness ==
    /\ WF_vars(LoopEmptyID \/ LoopSpawn \/ Return)
    /\ \A i \in 1..MaxIDs : WF_vars(Worker(i))
    /\ WF_vars(CloserWait \/ CloserClose)
    /\ WF_vars(ConsumerReceive \/ ConsumerExit)

FetchLive == InitFetch /\ [][FetchNext]_vars /\ FetchFairness

\* The same scheduling of the caller's loop, the goroutines and the closer,
\* with a caller that may stop receiving at any time, or never receive.
FetchLiveNoConsumer ==
    /\ InitFetch /\ [][FetchNext]_vars
    /\ WF_vars(LoopEmptyID \/ LoopSpawn \/ Return)
    /\ \A i \in 1..MaxIDs : WF_vars(Worker(i))
    /\ WF_vars(CloserWait \/ CloserClose)

---------------------------------------------------------------------------
(* internal/terraform: terraformParser.ParseState.                         *)

\* *tfjson.StateResource, as far as ParseState and parseInstanceResource
\* read it: its Type and AttributeValues["id"] ("" when there is none).
StateResource(type, id) == [Type |-> type, id |-> id]

\* The resources of a state file: a nil element, an aws_instance under one
\* of two IDs, an aws_instance without ID, a resource of another type.
StateResources ==
    {Nil} \cup {Ref(StateResource("aws_instance", id)) : id \in InstanceIDs \cup {""}}
          \cup {Ref(StateResource("aws_s3_bucket", "b-1"))}

\* *tfjson.StateModule of a child module: nil, or its Resources.
ChildModules ==
    {Nil} \cup {Ref([Resources |-> rs]) : rs \in SeqUpTo(StateResources, MaxChildResources)}

\* What json.Unmarshal leaves in state.Values: nil, or a root module whose
\* Resources is nil (no such key) or a list, with its ChildModules.
StateValues ==
    {Nil} \cup
    {Ref([Resources |-> rs, ChildModules |-> ms]) :
        rs \in {NilSlice} \cup {SliceV(FALSE, x) : x \in SeqUpTo(StateResources, MaxResources)},
        ms \in SeqUpTo(ChildModules, MaxModules)}

\* A state file: an empty path, a file that cannot be read, content that
\* is not a JSON state, or a state.
StateFiles ==
    {[file |-> f, Values |-> Nil] : f \in {"no path", "unreadable", "not a state"}}
    \cup {[file |-> "state", Values |-> v] : v \in StateValues}

\* parseInstanceResource: (configs, err); the instance ID comes from
\* AttributeValues["id"], and a resource without one is an error.
parseInstanceResource(res) ==
    IF res.id = "" THEN [configs |-> <<>>, err |-> "could not determine instance ID from resource"]
    ELSE [configs |-> <<Ref(InstanceConfig(res.id, "", "", MapV(FALSE, EmptyKV), NilSlice,
                                           PtrV(Nil), PtrV(Nil), NilSlice))>>,
          err |-> NoError]

\* What one resource adds to allConfigs, in the root module or in a child.
FromResource(res) ==
    IF res.Type = "aws_instance" /\ parseInstanceResource(res).err = NoError
    THEN parseInstanceResource(res).configs
    ELSE <<>>

\* for k, r := range module.Resources
RECURSIVE ModuleResourcesLoop(_, _)
ModuleResourcesLoop(resources, k) ==
    IF k > Len(resources) THEN <<>>
    ELSE (IF resources[k] = Nil THEN <<>> ELSE FromResource(Deref(resources[k])))
         \o ModuleResourcesLoop(resources, k + 1)

\* for j, module := range state.Values.RootModule.ChildModules
RECURSIVE ChildModulesLoop(_, _)
ChildModulesLoop(modules, j) ==
    IF j > Len(modules) THEN <<>>
    ELSE (IF modules[j] = Nil THEN <<>>
          ELSE ModuleResourcesLoop(Deref(modules[j]).Resources, 1))
         \o ChildModulesLoop(modules, j + 1)

\* for i, resource := range state.Values.RootModule.Resources: a nil
\* resource is skipped (continue); for any other, its own configs are
\* appended and then, inside the same iteration, the child modules are walked.
RECURSIVE RootResourcesLoop(_, _, _)
RootResourcesLoop(resources, modules, i) ==
    IF i > Len(resources) THEN <<>>
    ELSE (IF resources[i] = Nil THEN <<>>
          ELSE FromResource(Deref(resources[i])) \o ChildModulesLoop(modules, 1))
         \o RootResourcesLoop(resources, modules, i + 1)

\* (configs, err) as ParseState returns them.
ParseReturned(configs, err) == [configs |-> configs, err |-> err]

\* terraformParser.ParseState
ParseState(f) ==
    IF f.file = "no path" THEN ParseReturned(<<>>, "file path cannot be empty")
    ELSE IF f.file = "unreadable" THEN ParseReturned(<<>>, "failed to read state file")
    ELSE IF f.file = "not a state" THEN ParseReturned(<<>>, "failed to parse state file")
    ELSE IF f.Values = Nil THEN ParseReturned(<<>>, "state.Values is nil")
    ELSE IF Deref(f.Values).Resources.isNil
    THEN ParseReturned(<<>>, "state.Values.RootModule.Resources is nil")
    ELSE LET allConfigs == RootResourcesLoop(Deref(f.Values).Resources.elems,
                                             Deref(f.Values).ChildModules, 1)
         IN  IF Len(allConfigs) = 0
             THEN ParseReturned(<<>>, "no AWS instances found in state file")
             ELSE ParseReturned(allConfigs, NoError)

InitParse ==
    /\ entry = "parse" /\ Idle /\ NotCalled /\ FetchIdle
    /\ stateFile \in {Ref(f) : f \in StateFiles}
    /\ parsed = Nil

\* configs, err := parser.ParseState(filePath)
ParseStateCall ==
    /\ entry = "parse" /\ parsed = Nil
    /\ parsed' = Ref(ParseState(Deref(stateFile)))
    /\ UNCHANGED stateFile
    /\ UNCHANGED driftVars
    /\ UNCHANGED fetchVars

ParseNext == ParseStateCall

ParseSpec == InitParse /\ [][ParseNext]_vars

---------------------------------------------------------------------------
(* Properties.                                                             *)

\* The reports a state holds.
DetectorReports == IF report = Nil THEN {} ELSE {Deref(report)}
ServiceReports ==
    IF result = Nil \/ IsNilPtr(Deref(result).report) THEN {}
    ELSE {Deref(Deref(result).report)}
BatchReports ==
    IF batch = Nil THEN {}
    ELSE {Deref(Deref(batch).reports[id]) : id \in DOMAIN Deref(batch).reports}
BuiltReports == IF r = Nil THEN {} ELSE {Deref(r)}

DriftSet(rep) == {rep.Drifts[i] : i \in 1..Len(rep.Drifts)}
DriftsAt(rep, path) == {i \in 1..Len(rep.Drifts) : rep.Drifts[i].Path = path}
IsSet(v) == v # NilInterface
StrictlyBeneath(path, base) ==
    Len(path) > Len(base) /\ SubSeq(path, 1, Len(base)) = base
BothConfigs == awsConfig # Nil /\ tfConfig # Nil
BothInstances == instance # Nil /\ desiredInstance # Nil

\* Two slices of security groups holding the same records, each GroupID
\* non-empty and occurring once, in any order.
SameRecords(x, y) ==
    /\ Len(x) = Len(y)
    /\ \A i, j \in 1..Len(x) : GroupID(x[i]) = GroupID(x[j]) => i = j
    /\ \A i \in 1..Len(x) : GroupID(x[i]) # ""
    /\ {x[i] : i \in 1..Len(x)} = {y[i] : i \in 1..Len(y)}
\* Two structs of one type agreeing on every field not named in except.
AgreeExcept(x, y, except) ==
    \A i \in 1..NumField(x) : FieldName(x, i) \notin except => Field(x, i) = Field(y, i)

\* The two configurations hold the same security groups in any order, the
\* same tags, and equal values in every other field.
ReorderedGroups ==
    /\ BothConfigs
    /\ SameRecords(SGsOf(Deref(awsConfig)), SGsOf(Deref(tfConfig)))
    /\ TagsOf(Deref(awsConfig)) = TagsOf(Deref(tfConfig))
    /\ AgreeExcept(Deref(awsConfig), Deref(tfConfig), {"Tags", "SecurityGroups"})
\* The values a drift of each kind carries.
WellFormed(d) ==
    CASE d.Type = DriftTypeAdded -> IsSet(d.Actual) /\ ~IsSet(d.Expected)
      [] d.Type = DriftTypeRemoved -> IsSet(d.Expected) /\ ~IsSet(d.Actual)
      [] OTHER -> IsSet(d.Actual) /\ IsSet(d.Expected) /\ d.Actual # d.Expected
\* path names the entry key of Tags.
EntryPath(path, key) ==
    \E i, j \in 1..Len(path) : i < j /\ path[i] = "Tags" /\ path[j] = key
IDsOf(insts) == {InstID(Deref(insts[i])) : i \in 1..Len(insts)}

\* C1: in every report returned by Detector.DetectDrift, by
\* DefaultDetectionService.DetectDrift (so by CompareInstances), by
\* BatchDetectDrift, or built by NewDriftReport and AddDrift calls, HasDrift
\* is true exactly when Drifts is non-empty.
C1_HasDriftIffDrifts ==
    \A rep \in DetectorReports \cup ServiceReports \cup BatchReports \cup BuiltReports :
        rep.HasDrift <=> Len(rep.Drifts) > 0

\* A caller has added two drifts to a report it created.
C1_Witness == r # Nil /\ Len(Deref(r).Drifts) = 2 /\ Deref(r).HasDrift

\* C2: comparing a non-nil configuration (or instance) with itself yields a
\* report with no drift and HasDrift false.
C2_Reflexivity ==
    /\ (report # Nil /\ awsConfig # Nil /\ tfConfig = awsConfig) =>
           (Deref(report).Drifts = <<>> /\ ~Deref(report).HasDrift)
    /\ (result # Nil /\ instance # Nil /\ desiredInstance = instance) =>
           /\ Deref(result).report # Nil
           /\ Deref(Deref(result).report).Drifts = <<>>
           /\ ~Deref(Deref(result).report).HasDrift

\* DetectDrift has compared a configuration with two tags with itself.
C2_Witness ==
    /\ report # Nil /\ awsConfig # Nil /\ tfConfig = awsConfig
    /\ DOMAIN TagsOf(Deref(awsConfig)) = TagKeys
    /\ Deref(report).Drifts = <<>>

\* C3: DetectDrift returns the same ordered sequence of drifts on the same
\* pair of configurations, whatever order the map iterations take.
C3_Determinism ==
    report # Nil =>
        \A ord \in OrdersFor(awsConfig, tfConfig) :
            DetectDrift(awsConfig, tfConfig, ord).Drifts = Deref(report).Drifts

\* C4: an ADDED drift of DetectDrift(a, b) is a REMOVED drift of
\* DetectDrift(b, a) at the same path with the same value, and a REMOVED one
\* an ADDED one.
C4_SymmetryOfKind ==
    (report # Nil /\ BothConfigs) =>
        \A ord \in OrdersFor(tfConfig, awsConfig) :
            LET fwd == DriftSet(Deref(report))
                rev == DriftSet(DetectDrift(tfConfig, awsConfig, ord))
            IN  /\ \A d \in fwd : d.Type = DriftTypeAdded =>
                       \E e \in rev : /\ e.Type = DriftTypeRemoved
                                      /\ e.Path = d.Path
                                      /\ e.Expected = d.Actual
                /\ \A d \in fwd : d.Type = DriftTypeRemoved =>
                       \E e \in rev : /\ e.Type = DriftTypeAdded
                                      /\ e.Path = d.Path
                                      /\ e.Actual = d.Expected

\* C5: when MetadataOptions is set in the observed configuration and nil in
\* the declared one, no drift lies beneath MetadataOptions and exactly one
\* drift is at MetadataOptions itself.
C5_AbsenceShortCircuit ==
    (/\ report # Nil /\ BothConfigs
     /\ ~IsNilPtr(FieldByName(Deref(awsConfig), "MetadataOptions").p)
     /\ IsNilPtr(FieldByName(Deref(tfConfig), "MetadataOptions").p)) =>
        /\ \A d \in DriftSet(Deref(report)) : ~StrictlyBeneath(d.Path, <<"MetadataOptions">>)
        /\ Cardinality(DriftsAt(Deref(report), <<"MetadataOptions">>)) = 1

\* C6: DetectDrift reports no drift when the two SecurityGroups slices hold
\* the same records (GroupIDs distinct and non-empty) in any order, the
\* two Tags maps hold the same pairs and every other field is equal.
C6_IdentityMatching ==
    (report # Nil /\ ReorderedGroups) => Deref(report).Drifts = <<>>

\* DetectDrift has compared two security groups with the same two in the
\* opposite order.
C6_Witness ==
    /\ report # Nil /\ ReorderedGroups
    /\ Len(SGsOf(Deref(awsConfig))) = 2
    /\ SGsOf(Deref(awsConfig)) # SGsOf(Deref(tfConfig))

\* C7: DefaultDetectionService.DetectDrift reports no drift for two
\* instances that differ only in the order of their SecurityGroups (same
\* records, distinct GroupIDs).
C7_ServiceIdentityMatching ==
    (/\ result # Nil /\ BothInstances
     /\ SameRecords(SGsOf(Deref(instance)), SGsOf(Deref(desiredInstance)))
     /\ AgreeExcept(Deref(instance), Deref(desiredInstance), {"SecurityGroups"})) =>
        /\ Deref(result).report # Nil
        /\ Deref(Deref(result).report).Drifts = <<>>

\* C8: an ADDED drift has Actual set and Expected unset, a REMOVED drift
\* Expected set and Actual unset, a MODIFIED drift both set and unequal.
C8_DriftWellFormed ==
    \A rep \in DetectorReports \cup ServiceReports \cup BatchReports :
        \A d \in DriftSet(rep) : WellFormed(d)

\* C9: in the detection service, a tag (or an instance of a batch) only on
\* the actual side is reported ADDED, one only on the desired side REMOVED.
C9_AbsenceKinds ==
    /\ \A rep \in ServiceReports :
           LET a == InstTagsOf(Deref(instance))
               e == InstTagsOf(Deref(desiredInstance))
           IN  /\ \A k \in DOMAIN a \ DOMAIN e :
                      \E d \in DriftSet(rep) : d.Type = DriftTypeAdded /\ EntryPath(d.Path, k)
               /\ \A k \in DOMAIN e \ DOMAIN a :
                      \E d \in DriftSet(rep) : d.Type = DriftTypeRemoved /\ EntryPath(d.Path, k)
    /\ (batch # Nil /\ ~Deref(batch).panic) =>
           LET reps == Deref(batch).reports
           IN  /\ \A id \in IDsOf(actualInsts) \ IDsOf(desiredInsts) :
                      \E d \in DriftSet(Deref(reps[id])) : d.Type = DriftTypeAdded
               /\ \A id \in IDsOf(desiredInsts) \ IDsOf(actualInsts) :
                      \E d \in DriftSet(Deref(reps[id])) : d.Type = DriftTypeRemoved

DistinctIDs(sgs) == \A i, j \in 1..Len(sgs) : GroupID(sgs[i]) = GroupID(sgs[j]) => i = j
\* The drifts of a report at or beneath the top-level field named field.
DriftsUnder(rep, field) ==
    {i \in 1..Len(rep.Drifts) : rep.Drifts[i].Path # <<>> /\ Head(rep.Drifts[i].Path) = field}

\* C11: for SecurityGroups with pairwise distinct GroupIDs on each side,
\* DetectDrift reports a GroupID on both sides under different GroupNames as
\* one MODIFIED drift at SecurityGroups[id].GroupName carrying both names, a
\* GroupID only observed as one ADDED drift at SecurityGroups[id] carrying
\* the observed record, a GroupID only declared as one REMOVED drift at
\* SecurityGroups[id] carrying the declared record, nothing for identical
\* records, and as many SecurityGroups drifts in all as there are such ids.
C11_SecurityGroups ==
    (/\ report # Nil /\ BothConfigs
     /\ DistinctIDs(SGsOf(Deref(awsConfig)))
     /\ DistinctIDs(SGsOf(Deref(tfConfig)))) =>
        LET a == SGMap(SGsOf(Deref(awsConfig)))
            e == SGMap(SGsOf(Deref(tfConfig)))
            rep == Deref(report)
            base(id) == <<"SecurityGroups">> \o Key(id)
            name(id) == base(id) \o <<Dot, "GroupName">>
            Sole(path, d) ==
                /\ Cardinality(DriftsAt(rep, path)) = 1
                /\ \A i \in DriftsAt(rep, path) : rep.Drifts[i] = d
            renamed == {id \in DOMAIN a \cap DOMAIN e : GroupName(a[id]) # GroupName(e[id])}
        IN  /\ \A id \in renamed :
                   Sole(name(id), Drift(DriftTypeModified, name(id),
                                        StringV(GroupName(a[id])),
                                        StringV(GroupName(e[id]))))
            /\ \A id \in DOMAIN a \ DOMAIN e :
                   Sole(base(id), Drift(DriftTypeAdded, base(id), a[id], NilInterface))
            /\ \A id \in DOMAIN e \ DOMAIN a :
                   Sole(base(id), Drift(DriftTypeRemoved, base(id), NilInterface, e[id]))
            /\ Cardinality(DriftsUnder(rep, "SecurityGroups")) =
                   Cardinality(renamed) + Cardinality(DOMAIN a \ DOMAIN e)
                   + Cardinality(DOMAIN e \ DOMAIN a)

\* DetectDrift has compared [sg-1 named a, sg-2] against [sg-1 named b]:
\* one group renamed, one only observed.
C11_Witness ==
    /\ report # Nil /\ BothConfigs
    /\ SGsOf(Deref(awsConfig)) = <<SecurityGroup("sg-1", "a"), SecurityGroup("sg-2", "a")>>
    /\ SGsOf(Deref(tfConfig)) = <<SecurityGroup("sg-1", "b")>>
    /\ Len(Deref(report).Drifts) = 2

\* The top-level scalar fields of the modelled InstanceConfig.
ScalarFields == {"InstanceID", "InstanceType", "AMI"}

\* C12: when two non-nil configurations differ in a set F of top-level
\* scalar fields and in nothing else, DetectDrift reports one MODIFIED drift
\* per field of F, at the path that is the field's name, with the observed
\* value as Actual and the declared value as Expected, and no other drift.
C12_Scalars ==
    (/\ report # Nil /\ BothConfigs
     /\ AgreeExcept(Deref(awsConfig), Deref(tfConfig), ScalarFields)) =>
        LET a == Deref(awsConfig)
            e == Deref(tfConfig)
            rep == Deref(report)
            F == {f \in ScalarFields : FieldByName(a, f) # FieldByName(e, f)}
        IN  /\ Len(rep.Drifts) = Cardinality(F)
            /\ \A f \in F :
                   \E i \in 1..Len(rep.Drifts) :
                       rep.Drifts[i] = Drift(DriftTypeModified, <<f>>,
                                             FieldByName(a, f), FieldByName(e, f))

\* DetectDrift has compared two configurations that differ in InstanceType
\* and AMI only.
C12_Witness ==
    /\ report # Nil /\ BothConfigs
    /\ AgreeExcept(Deref(awsConfig), Deref(tfConfig), {"InstanceType", "AMI"})
    /\ FieldByName(Deref(awsConfig), "InstanceType") # FieldByName(Deref(tfConfig), "InstanceType")
    /\ FieldByName(Deref(awsConfig), "AMI") # FieldByName(Deref(tfConfig), "AMI")
    /\ Len(Deref(report).Drifts) = 2

\* What the claim of positional comparison asks of the drifts ds of two
\* lists of lengths la (observed) and le (declared) at the path list: no
\* drift at list itself, and for every index past the shorter list an ADDED
\* drift (observed longer) or a REMOVED drift (declared longer) at list[i].
PerIndex(ds, list, la, le) ==
    LET short == IF la < le THEN la ELSE le
        long == IF la < le THEN le ELSE la
        kind == IF la > le THEN DriftTypeAdded ELSE DriftTypeRemoved
    IN  /\ \A d \in ds : TrimPrefix(d.Path) # list
        /\ \A i \in short..(long - 1) :
               \E d \in ds : d.Type = kind /\ TrimPrefix(d.Path) = Index(list, i)

\* C13: two lists of different lengths are compared index by index, every
\* index past the shorter one being reported ADDED or REMOVED at path[i] and
\* no drift being reported at the list's own path: EBSBlockDevices in
\* Detector.DetectDrift, SecurityGroups in the detection service.
C13_PositionalLists ==
    /\ (report # Nil /\ BothConfigs) =>
           LET la == Len(FieldByName(Deref(awsConfig), "EBSBlockDevices").elems)
               le == Len(FieldByName(Deref(tfConfig), "EBSBlockDevices").elems)
           IN  la # le =>
                   PerIndex(DriftSet(Deref(report)), <<"EBSBlockDevices">>, la, le)
    /\ \A rep \in ServiceReports :
           LET la == Len(SGsOf(Deref(instance)))
               le == Len(SGsOf(Deref(desiredInstance)))
           IN  la # le => PerIndex(DriftSet(rep), <<"SecurityGroups">>, la, le)

\* C14: DetectDrift on two nil configurations reports no drift; on exactly
\* one nil configuration it reports exactly one drift, at the root path,
\* ADDED with the observed configuration attached when only the observed
\* one is present, REMOVED with the declared configuration attached when
\* only the declared one is.
C14_WholeValueAbsence ==
    report # Nil =>
        LET ds == Deref(report).Drifts
        IN  /\ (awsConfig = Nil /\ tfConfig = Nil) => ds = <<>>
            /\ (awsConfig # Nil /\ tfConfig = Nil) =>
                   /\ Len(ds) = 1
                   /\ ds[1].Type = DriftTypeAdded /\ ds[1].Path = EmptyPath
                   /\ IsSet(ds[1].Actual) /\ ~IsSet(ds[1].Expected)
            /\ (awsConfig = Nil /\ tfConfig # Nil) =>
                   /\ Len(ds) = 1
                   /\ ds[1].Type = DriftTypeRemoved /\ ds[1].Path = EmptyPath
                   /\ IsSet(ds[1].Expected) /\ ~IsSet(ds[1].Actual)

\* BatchDetectDrift has returned its map without error.
BatchDone == batch # Nil /\ ~Deref(batch).panic /\ Deref(batch).err = NoError

\* C15: when BatchDetectDrift returns without error, the keys of the map it
\* returns are the IDs occurring in actual or in desired, and every value is
\* a non-nil report whose InstanceID is its key.
C15_BatchCoverage ==
    BatchDone =>
        LET reps == Deref(batch).reports
        IN  /\ DOMAIN reps = IDsOf(actualInsts) \cup IDsOf(desiredInsts)
            /\ \A id \in DOMAIN reps :
                   reps[id] # Nil /\ Deref(reps[id]).InstanceID = id

\* BatchDetectDrift has returned for an actual slice naming i-1 twice and a
\* desired slice naming only i-2.
C15_Witness ==
    /\ BatchDone
    /\ Len(actualInsts) = 2 /\ IDsOf(actualInsts) = {"i-1"}
    /\ actualInsts[1] # actualInsts[2]
    /\ IDsOf(desiredInsts) = {"i-2"}
    /\ DOMAIN Deref(batch).reports = {"i-1", "i-2"}

\* The IDs of the non-nil elements of a slice of instances.
WellFormedIDs(insts) ==
    {InstID(Deref(insts[i])) : i \in {j \in 1..Len(insts) : ~IsNilPtr(insts[j])}}

\* C16: a failure on one resource of a batch (a nil element, an error of
\* DetectDrift) never aborts BatchDetectDrift: the call returns, and the map
\* it returns holds a report for every other resource.
C16_BatchFailureIsolation ==
    batch # Nil =>
        /\ ~Deref(batch).panic
        /\ \A id \in WellFormedIDs(actualInsts) \cup WellFormedIDs(desiredInsts) :
               id \in DOMAIN Deref(batch).reports

Delivered == received \o results

\* The positions of instanceIDs whose result has been sent.
SentIDs ==
    {i \in 1..Len(instanceIDs) :
        \/ (i < loopAt /\ instanceIDs[i] = "")
        \/ (instanceIDs[i] # "" /\ worker[i].at \in {"sent", "done"})}

\* The one-to-one assignments of the delivered results to sent positions.
Deliveries ==
    {f \in [1..Len(Delivered) -> SentIDs] :
        /\ \A j, k \in 1..Len(Delivered) : j # k => f[j] # f[k]
        /\ \A i \in SentIDs : \E k \in 1..Len(Delivered) : f[k] = i}

\* C18: GetInstanceConfigs delivers exactly one result per element of
\* instanceIDs, duplicates and empty strings counted: at every moment the
\* results sent correspond one to one to the positions already served, each
\* carrying the ID requested at its position; an empty ID gives an error
\* result with an empty InstanceID; when the channel is closed every position
\* has been served, and a consumer that ranged to the end holds them all.
C18_OneResultPerID ==
    entry = "fetch" =>
        /\ \E f \in Deliveries :
              \A k \in 1..Len(Delivered) : Delivered[k].InstanceID = instanceIDs[f[k]]
        /\ \A k \in 1..Len(Delivered) :
              Delivered[k].InstanceID = "" =>
                  Delivered[k].Err # NoError /\ Delivered[k].Config = Nil
        /\ closed => SentIDs = 1..Len(instanceIDs)
        /\ consumer = "done" => Len(received) = Len(instanceIDs)
        /\ \A i \in 1..Len(instanceIDs) : worker[i].at # "panic"

\* A call with the same ID twice, ranged to the end: two results with it.
C18_Witness ==
    /\ entry = "fetch" /\ consumer = "done"
    /\ Len(instanceIDs) = 2
    /\ instanceIDs[1] = instanceIDs[2] /\ instanceIDs[1] # ""
    /\ Len(received) = 2
    /\ \A k \in 1..2 : received[k].InstanceID = instanceIDs[1]

\* C19: when every DescribeInstances call returns and every goroutine is
\* scheduled fairly, the results channel is eventually closed and a consumer
\* ranging over it terminates; for an empty instanceIDs the channel is closed
\* without any result having been delivered.
C19_EventuallyClosed ==
    /\ <>(closed /\ consumer = "done")
    /\ [](instanceIDs = <<>> => Delivered = <<>>)

\* The consumer's range has ended after goroutines fetched and finished.
C19_Witness ==
    /\ entry = "fetch" /\ closed /\ consumer = "done" /\ wg = 0
    /\ \E i \in 1..Len(instanceIDs) : worker[i].at = "done"

\* The fetch of the i-th requested ID failed: the ID is empty, or
\* DescribeInstances returned an error or no instance.
FetchFailed(i) ==
    \/ instanceIDs[i] = ""
    \/ worker[i].out.err
    \/ Len(worker[i].out.instances) = 0

\* C20: a failing ID's result carries a non-nil Err and a nil Config, and
\* every other ID's result is what its own fetch gives, whatever happened to
\* the others: a successful fetch gives a non-nil Config (of the instance
\* requested) and a nil Err.
C20_FetchFailureIsolation ==
    entry = "fetch" =>
        \E f \in Deliveries :
            \A k \in 1..Len(Delivered) :
                LET res == Delivered[k] IN
                /\ res.InstanceID = instanceIDs[f[k]]
                /\ IF FetchFailed(f[k])
                   THEN res.Err # NoError /\ res.Config = Nil
                   ELSE /\ res.Err = NoError /\ res.Config # Nil
                        /\ FieldByName(res.Config[1], "InstanceID") = StringV(instanceIDs[f[k]])

\* One fetch failed and another succeeded in the same call, both delivered.
C20_Witness ==
    /\ entry = "fetch" /\ closed
    /\ \E i, j \in SentIDs : FetchFailed(i) /\ ~FetchFailed(j)

\* The per-instance tasks in flight: goroutines started and not yet returned.
InFlight ==
    Cardinality({i \in 1..Len(instanceIDs) : worker[i].at \in {"fetch", "send", "sent"}})

\* A maximum in-flight count below the longest request: GetInstanceConfigs
\* takes no such setting, so any value stands for a configured one.
MaxInFlight == MaxIDs - 1

\* C21: while a batch is processed, the number of per-resource tasks in
\* flight at once never exceeds the configured maximum, however many IDs are
\* requested.
C21_BoundedConcurrency ==
    entry = "fetch" => InFlight <= MaxInFlight

\* C22: each task has a deadline of its own: a task whose fetch exceeds it
\* yields an error result (Err set, no Config) for its own instance ID, and
\* no other task is ended by that deadline or has its result changed: a task
\* that did not time out never ends with the context's error.
C22_PerTaskTimeout ==
    entry = "fetch" =>
        \A i \in 1..Len(instanceIDs) :
            /\ worker[i].timedOut =>
                  /\ worker[i].err # NoError /\ worker[i].config = Nil
                  /\ worker[i].at \in {"sent", "done"} =>
                        \E k \in 1..Len(Delivered) :
                            Delivered[k] = InstanceConfigResult(instanceIDs[i], Nil, worker[i].err)
            /\ (worker[i].at # "none" /\ ~worker[i].timedOut) =>
                  /\ worker[i].out # <<>> => ~worker[i].out.ctxErr
                  /\ worker[i].at \in {"sent", "done"} /\ ~FetchFailed(i) =>
                        \E k \in 1..Len(Delivered) :
                            /\ Delivered[k].InstanceID = instanceIDs[i]
                            /\ Delivered[k].Err = NoError /\ Delivered[k].Config # Nil

\* One task timed out and another, requested with a different ID, delivered
\* its instance.
C22_Witness ==
    /\ entry = "fetch" /\ closed
    /\ \E i, j \in 1..Len(instanceIDs) :
          /\ instanceIDs[i] # instanceIDs[j]
          /\ worker[i].timedOut /\ worker[i].at = "done"
          /\ worker[j].at = "done" /\ ~FetchFailed(j)

\* The positions of a slice of security groups holding a record without
\* GroupID.
NoIdentity(sgs) == {k \in 1..Len(sgs) : GroupID(sgs[k]) = ""}

\* C23: in Detector.DetectDrift a SecurityGroups record whose GroupID is
\* empty is never matched or dropped: each such observed record is reported
\* as ADDED and each such declared record as REMOVED, also when both sides
\* hold a record with an empty GroupID.
C23_RecordsLackingIdentity ==
    (report # Nil /\ BothConfigs) =>
        LET a == SGsOf(Deref(awsConfig))
            e == SGsOf(Deref(tfConfig))
            rep == Deref(report)
            at == DriftsAt(rep, <<"SecurityGroups">> \o Key(""))
        IN  /\ \A k \in NoIdentity(a) :
                   \E i \in at : /\ rep.Drifts[i].Type = DriftTypeAdded
                                 /\ rep.Drifts[i].Actual = a[k]
            /\ \A k \in NoIdentity(e) :
                   \E i \in at : /\ rep.Drifts[i].Type = DriftTypeRemoved
                                 /\ rep.Drifts[i].Expected = e[k]
            /\ Cardinality({i \in at : rep.Drifts[i].Type = DriftTypeAdded})
                   = Cardinality(NoIdentity(a))
            /\ Cardinality({i \in at : rep.Drifts[i].Type = DriftTypeRemoved})
                   = Cardinality(NoIdentity(e))

\* No two drifts of the report share both path and kind.
UniqueByPathAndType(rep) ==
    \A i, j \in 1..Len(rep.Drifts) :
        (rep.Drifts[i].Path = rep.Drifts[j].Path /\ rep.Drifts[i].Type = rep.Drifts[j].Type)
            => i = j

\* C24: within one report produced by Detector.DetectDrift or by
\* DriftDetector.CompareInstances, no two drifts share both the same path
\* and the same kind.
C24_UniquePathAndType ==
    \A rep \in DetectorReports \cup ServiceReports : UniqueByPathAndType(rep)

\* Detector.DetectDrift has reported two drifts of one kind, at two paths.
C24_Witness ==
    /\ report # Nil /\ BothConfigs
    /\ \E i, j \in 1..Len(Deref(report).Drifts) :
          /\ i # j
          /\ Deref(report).Drifts[i].Type = Deref(report).Drifts[j].Type
          /\ Deref(report).Drifts[i].Path # Deref(report).Drifts[j].Path

\* The path is a chain of segments joined by single separators: it neither
\* starts nor ends with the separator and holds no two in a row.
WellRenderedPath(path) ==
    /\ path # <<>> => (Head(path) # Dot /\ path[Len(path)] # Dot)
    /\ \A i \in 1..(Len(path) - 1) : ~(path[i] = Dot /\ path[i + 1] = Dot)

\* C25: every drift path of DriftDetector.CompareInstances and of
\* Detector.DetectDrift is a chain of segments rendered field.subfield,
\* field[index] or field[key], with no leading or doubled separator; a drift
\* on a tag is rendered Tags[key], a drift on a top-level field as the bare
\* field name.
C25_PathRendering ==
    \A rep \in DetectorReports \cup ServiceReports :
        \A d \in DriftSet(rep) :
            /\ WellRenderedPath(d.Path)
            /\ \A k \in TagKeys : EntryPath(d.Path, k) => d.Path = <<"Tags">> \o Key(k)

C27_ServiceDetectDriftErrors ==
    result # Nil =>
        LET res == Deref(result)
            invalid == instance = Nil \/ desiredInstance = Nil
        IN  /\ res.err \in {NoError, ErrInvalidInput, ErrInstanceMismatch}
            /\ res.err = ErrInvalidInput <=> invalid
            /\ ~invalid =>
                  (res.err = ErrInstanceMismatch
                     <=> InstID(Deref(instance)) # InstID(Deref(desiredInstance)))
            /\ res.err # NoError => IsNilPtr(res.report)
            /\ res.err = NoError =>
                  /\ ~IsNilPtr(res.report)
                  /\ Deref(res.report).InstanceID = InstID(Deref(instance))

\* DetectDrift has refused two instances with different IDs.
C27_Witness ==
    /\ result # Nil /\ BothInstances
    /\ InstID(Deref(instance)) # InstID(Deref(desiredInstance))
    /\ Deref(result).err = ErrInstanceMismatch

\* The (GroupID, GroupName) records occurring in a slice of security groups.
RecordsIn(sgs) == {<<GroupID(sgs[i]), GroupName(sgs[i])>> : i \in 1..Len(sgs)}

\* C28: when Detector.DetectDrift reports no drift for two non-nil
\* configurations, every (GroupID, GroupName) record of the observed
\* SecurityGroups occurs in the declared SecurityGroups and the other way
\* round, also when a GroupID occurs more than once in one list.
C28_NoDriftSoundForGroups ==
    (report # Nil /\ BothConfigs /\ Deref(report).Drifts = <<>>) =>
        RecordsIn(SGsOf(Deref(awsConfig))) = RecordsIn(SGsOf(Deref(tfConfig)))

\* How many aws_instance resources with the instance ID id a list of
\* resources holds.
CountIn(resources, id) ==
    Cardinality({k \in 1..Len(resources) :
        /\ resources[k] # Nil
        /\ Deref(resources[k]).Type = "aws_instance"
        /\ Deref(resources[k]).id = id})

\* How many aws_instance resources with the instance ID id the child
\* modules hold.
RECURSIVE CountInModules(_, _)
CountInModules(modules, id) ==
    IF modules = <<>> THEN 0
    ELSE (IF Head(modules) = Nil THEN 0 ELSE CountIn(Deref(Head(modules)).Resources, id))
         + CountInModules(Tail(modules), id)

\* C29: ParseState returns each aws_instance resource of the state exactly
\* once: for a state whose root module has a resource list, every instance
\* of the root module and every instance of a child module is in the result
\* once, however many resources the root module holds (none included).
C29_EachInstanceOnce ==
    (/\ parsed # Nil /\ Deref(stateFile).file = "state"
     /\ Deref(stateFile).Values # Nil
     /\ ~Deref(Deref(stateFile).Values).Resources.isNil) =>
        LET root == Deref(Deref(stateFile).Values)
            configs == Deref(parsed).configs
        IN  \A id \in InstanceIDs :
                Cardinality({k \in 1..Len(configs) :
                                FieldByName(Deref(configs[k]), "InstanceID") = StringV(id)})
                  = CountIn(root.Resources.elems, id) + CountInModules(root.ChildModules, id)

\* A send is about to happen: the loop is at an empty ID, or a goroutine
\* holds its result.
SendPending ==
    \/ pc = "loop" /\ loopAt <= Len(instanceIDs) /\ instanceIDs[loopAt] = ""
    \/ \E i \in 1..Len(instanceIDs) : worker[i].at = "send"

\* Every goroutine started has finished and the channel is closed.
AllWorkersFinished ==
    /\ pc = "returned" /\ closed
    /\ \A i \in 1..Len(instanceIDs) : worker[i].at \in {"none", "done"}

\* C30: in GetInstanceConfigs no send on results blocks and none happens
\* after the channel is closed: whenever a send is due the buffer has room
\* and the channel is open, and, also when the caller never receives, every
\* goroutine completes its send and finishes, after which the channel is
\* closed.
C30_NoBlockedSend ==
    /\ [](SendPending => (Len(results) < Capacity /\ ~closed))
    /\ [](\A i \in 1..Len(instanceIDs) : worker[i].at # "panic")
    /\ <>AllWorkersFinished

\* Two goroutines have sent and finished and the channel is closed while
\* the caller has received nothing.
C30_Witness ==
    /\ entry = "fetch" /\ AllWorkersFinished
    /\ received = <<>> /\ Len(results) = 2
    /\ \A i \in 1..2 : worker[i].at = "done"

====
